---------------------------- MODULE Spec2Model ----------------------------
(***************************************************************************)
(* The connection reactor of src/src/proxy.rs (struct Server): the slab    *)
(* of pumps, the link table, the detached set and the one-shot             *)
(* registrations held by the readiness source, driven by the loop of       *)
(* Server::run: poll, then dispatch.  dispatch is followed statement by    *)
(* statement through pc; every call that can return Err (the ? operator)   *)
(* has an input deciding its outcome, and an Err ends the loop in the      *)
(* state the code has reached at that point (pc = "failed").  A panic      *)
(* (unwrap of None, Slab::remove of a vacant key, a second borrow_mut of   *)
(* one RefCell) ends it in pc = "panic".                                   *)
(***************************************************************************)
EXTENDS Integers, Sequences, FiniteSets, TLC

\* const MAX_PUMPS: usize = 1024 * 1024, scaled down to the size of the model.
MAX_PUMPS == 2
\* const ROOT_TOKEN = Token(usize::max_value() - 1), at the width of TLC's integers.
ROOT_TOKEN == 2147483646

\* Bounds of the model.
\* Keys the slab may hand out: 0 .. MaxSlots - 1.
MaxSlots == 3
\* Bytes one connection reads from its socket over its lifetime.
MaxRx == 1
\* The same, under the specification of the relayed streams.
MaxStream == 2
\* Events one readiness wait delivers.
MaxBatch == 2

Slots == 0 .. (MaxSlots - 1)
NoToken == -1

VARIABLES
  pumps,      \* Server.pumps: slab key -> pump, NoPump where the key is vacant
  vacant,     \* the slab's free list, most recently freed key first
  links,      \* Server.links: HashMap<Token, Token>, NoToken where the key is absent
  detached,   \* Server.detached: HashSet<Token>
  reg,        \* the readiness source: per key "unreg", "fired" (one-shot, disarmed), "r", "rw"
  pc,         \* position in run/dispatch
  events,     \* the events of the batch not yet handled; Head is the one in hand
  readiness,  \* event.readiness() of the event in hand (line 86): the facets dispatch
              \* has still to look at, {} between events
  stale,      \* dispatch's local stale
  new_peers,  \* dispatch's local new_peers: client token -> upstream pump, NoPump where absent
  rearmed,    \* history: the tokens the step just taken passed to Poll::reregister
  last,       \* history: the step just taken and its inputs
  hung,       \* history: <<token, partner>> of the events of this cycle that carried hangup
  scen        \* history: how far the run has followed Scenario (Off once it has left it)

vars == <<pumps, vacant, links, detached, reg, pc, events, readiness, stale,
          new_peers, rearmed, last, hung, scen>>

----------------------------------------------------------------------------
(* The pump collaborator (crate pump, by its documented contract).          *)

NoPump == [kind |-> "none", routed |-> FALSE, rx |-> 0, inbuf |-> <<>>, outbuf |-> <<>>]

\* Pump::downstream(&secret, sock): a fresh client-side pump.
downstream == [kind |-> "down", routed |-> FALSE, rx |-> 0, inbuf |-> <<>>, outbuf |-> <<>>]

\* The pump DcPool::get returns: a fresh upstream-side pump.
upstream == [kind |-> "up", routed |-> FALSE, rx |-> 0, inbuf |-> <<>>, outbuf |-> <<>>]

\* interest(): always readable, writable while output is pending.
interest(p) == IF p.outbuf = <<>> THEN "r" ELSE "rw"

\* pull(): the buffered inbound bytes, which leave the buffer.
pull(p) == [p EXCEPT !.inbuf = <<>>]

\* push(bytes): append to the outbound buffer.
push(p, buf) == [p EXCEPT !.outbuf = @ \o buf]

\* drain(): n bytes read from the socket of the pump at `token` join its inbound
\* buffer; res = "route" is the first routing decision.  A byte is named by the
\* side it was read on and its position in that connection's stream.
drain(p, res, n) ==
  [p EXCEPT !.inbuf = @ \o [i \in 1 .. n |-> <<p.kind, p.rx + i>>],
            !.rx = @ + n,
            !.routed = @ \/ res = "route"]

\* flush(): the first n bytes of the outbound buffer are written to the socket.
flush(p, n) == [p EXCEPT !.outbuf = SubSeq(@, n + 1, Len(@))]

----------------------------------------------------------------------------
(* The slab (crate slab, as Server uses it).                               *)

live == {k \in Slots : pumps[k] # NoPump}

\* Slab::len()
SlabLen == Cardinality(live)

\* SlabNext without the free list.
SlabNextAppend == SlabLen

\* The key Slab::insert hands out: the most recently vacated one, else a new one.
SlabNext == IF vacant = <<>> THEN SlabLen ELSE Head(vacant)

\* Bound of the model: the environment brings a further connection (an inbound
\* socket, a pool upstream) only while a key below MaxSlots is left for it.
Room == SlabLen + Cardinality({k \in Slots : new_peers[k] # NoPump}) < MaxSlots

----------------------------------------------------------------------------
(* History.                                                                *)

Lbl(op, tok, peer, res, n) ==
  [op |-> op, tok |-> tok, peer |-> peer, res |-> res, n |-> n, ev |-> <<>>, rd |-> {}]

\* An event of a batch: its token and the interest its socket was armed with when
\* it fired.  The readiness it carries is drawn where the code reads it (line 86).
Ev(tok, armed) == [token |-> tok, armed |-> armed]

\* The end-to-end scenario (accept, first packet, upstream write, reply, client
\* write), as the steps of the model: ev the tokens of a batch, rd the readiness
\* of an event.
Scenario ==
  << [Lbl("poll", NoToken, NoToken, "ok", 0) EXCEPT !.ev = <<ROOT_TOKEN>>],
     Lbl("accept", 0, NoToken, "ok", 0),
     Lbl("detach", NoToken, NoToken, "ok", 0),
     [Lbl("poll", NoToken, NoToken, "ok", 0) EXCEPT !.ev = <<0>>],
     [Lbl("classify", 0, NoToken, "ok", 0) EXCEPT !.rd = {"r"}],
     Lbl("drain", 0, NoToken, "route-some", 1),
     Lbl("tail", 0, NoToken, "rereg", 0),
     Lbl("link", 0, 1, "ok", 0),
     Lbl("detach", NoToken, NoToken, "ok", 0),
     [Lbl("poll", NoToken, NoToken, "ok", 0) EXCEPT !.ev = <<1>>],
     [Lbl("classify", 1, NoToken, "ok", 0) EXCEPT !.rd = {"w"}],
     Lbl("fan_in", 1, 0, "empty", 0),
     Lbl("flush", 1, NoToken, "ok", 1),
     Lbl("tail", 1, NoToken, "rereg", 0),
     Lbl("detach", NoToken, NoToken, "ok", 0),
     [Lbl("poll", NoToken, NoToken, "ok", 0) EXCEPT !.ev = <<1>>],
     [Lbl("classify", 1, NoToken, "ok", 0) EXCEPT !.rd = {"r"}],
     Lbl("drain", 1, NoToken, "none", 1),
     Lbl("fan_out", 1, 0, "ok", 1),
     Lbl("tail", 1, NoToken, "rereg", 0),
     Lbl("detach", NoToken, NoToken, "ok", 0),
     [Lbl("poll", NoToken, NoToken, "ok", 0) EXCEPT !.ev = <<0>>],
     [Lbl("classify", 0, NoToken, "ok", 0) EXCEPT !.rd = {"w"}],
     Lbl("fan_in", 0, 1, "empty", 0),
     Lbl("flush", 0, NoToken, "ok", 1),
     Lbl("tail", 0, NoToken, "rereg", 0),
     Lbl("detach", NoToken, NoToken, "ok", 0) >>

\* The value of scen once the run has left the scenario.
Off == Len(Scenario) + 1

Log(l) ==
  /\ last' = [op |-> l.op, tok |-> l.tok, peer |-> l.peer, res |-> l.res]
  /\ scen' = IF scen < Len(Scenario) /\ Scenario[scen + 1] = l
             THEN scen + 1 ELSE Off

----------------------------------------------------------------------------
(* Server::new, and run up to its first readiness wait.                    *)

Init ==
  /\ pumps = [k \in Slots |-> NoPump]
  /\ vacant = <<>>
  /\ links = [k \in Slots |-> NoToken]
  /\ detached = {}
  /\ reg = [k \in Slots |-> "unreg"]
  /\ pc = "poll"
  /\ events = <<>>
  /\ readiness = {}
  /\ stale = {}
  /\ new_peers = [k \in Slots |-> NoPump]
  /\ rearmed = {}
  /\ last = [op |-> "new", tok |-> NoToken, peer |-> NoToken, res |-> "ok"]
  /\ hung = {}
  /\ scen = 0

----------------------------------------------------------------------------
(* run: the readiness wait.                                                *)

\* What the readiness source reports for a data socket: the facets asked for at
\* its last (re)registration, and hangup or error, which are always reported.
\* The model draws an error alone (line 140 treats it as line 137 treats hangup).
Facets(armed) ==
  {rd \in SUBSET {"r", "w", "hup", "err"} :
     /\ rd # {}
     /\ "w" \in rd => armed = "rw"
     /\ "err" \in rd => rd = {"err"}}

\* The sockets that can fire: the listener (edge-triggered, never disarmed) and
\* the armed one-shot registrations.
Armed == {t \in Slots : reg[t] \in {"r", "rw"}}

EventOf(t) == IF t = ROOT_TOKEN THEN Ev(t, "r") ELSE Ev(t, reg[t])

RECURSIVE Batches(_, _)
\* The batches of at most n events, one event a socket, over the sockets in ts.
Batches(ts, n) ==
  IF n = 0 THEN {<<>>}
  ELSE {<<>>} \cup UNION {{<<EventOf(t)>> \o b : b \in Batches(ts \ {t}, n - 1)} : t \in ts}

\* AfterEvents without the loop of lines 153-168.
AfterEventsNoLinks(np) == "detach"

\* What follows the events of the batch (lines 153-183): the new links if any,
\* then the detached check.
AfterEvents(np) == IF \E k \in Slots : np[k] # NoPump THEN "link" ELSE "detach"

\* self.poll.poll(&mut events, None)?, then dispatch's locals (lines 62-63, 74-75),
\* for a wait that returns at most n events.
wait(n) ==
  /\ pc = "poll"
  /\ \E ok \in BOOLEAN :
       IF ~ ok
       THEN /\ pc' = "failed"
            /\ Log(Lbl("poll", NoToken, NoToken, "err", 0))
            /\ rearmed' = {}
            /\ UNCHANGED <<pumps, vacant, links, detached, reg, events, stale, new_peers, hung>>
       ELSE \E batch \in Batches(Armed \cup {ROOT_TOKEN}, n) \ {<<>>} :
            /\ events' = batch
            /\ reg' = [k \in Slots |->
                         IF \E i \in 1 .. Len(batch) : batch[i].token = k THEN "fired" ELSE reg[k]]
            /\ stale' = {}
            /\ new_peers' = [k \in Slots |-> NoPump]
            /\ rearmed' = {}
            /\ hung' = {}
            /\ pc' = "event"
            /\ Log([Lbl("poll", NoToken, NoToken, "ok", 0)
                      EXCEPT !.ev = [i \in 1 .. Len(batch) |-> batch[i].token]])
            /\ UNCHANGED <<pumps, vacant, links, detached>>
  /\ UNCHANGED readiness

poll == wait(MaxBatch)

\* A wait that returns as soon as one socket is ready.
poll_one == wait(1)

\* primed with the push left out: the bytes pulled from the client go nowhere.
primed_not(peer, buf) == peer

\* The priming of a new upstream (lines 101-104): the client's buffered bytes, if
\* any, go to its outbound buffer.
primed(peer, buf) == IF Len(buf) > 0 THEN push(peer, buf) ELSE peer

\* AfterBreak as a continue: the events after the one in hand are left.
AfterContinue(evs) == Tail(evs)

\* The events left to the loop after the break of line 132: none.
AfterBreak(evs) == <<>>

\* tail_interest asking for every facet.
tail_interest_all(p) == "rw"

\* The interest an event's own socket is re-armed with (lines 144-149).
tail_interest(p) == interest(p)

\* nothing_to_relay never returning early.
nothing_to_relay_never(buf) == FALSE

\* The early return of fan_out and fan_in (lines 218-220, 242-244).
nothing_to_relay(buf) == buf = <<>>

----------------------------------------------------------------------------
(* dispatch: the loop over the events.                                     *)

token == Head(events).token

\* Where the event in hand goes after its readable facet (lines 122-126, 137).
AfterRead(rd) ==
  IF "w" \in rd
  THEN IF links[token] # NoToken THEN "fan_in" ELSE "flush"
  ELSE "tail"

\* Where dispatch goes once the event in hand is done (the for of line 77).
NextEvent == IF Tail(events) # <<>> THEN "event" ELSE AfterEvents(new_peers)

\* Server::accept (lines 185-213), called on the listener's event (lines 80-84).
accept ==
  /\ pc = "event"
  /\ token = ROOT_TOKEN
  /\ \E sock \in {"ok", "err"}, registered \in BOOLEAN :
       /\ sock = "ok" => Room
       /\ IF SlabLen > MAX_PUMPS
          THEN /\ Log(Lbl("accept", NoToken, NoToken, "full", 0))
               /\ pc' = NextEvent
               /\ UNCHANGED <<pumps, vacant, reg>>
          ELSE IF sock = "err"
          THEN /\ Log(Lbl("accept", NoToken, NoToken, "err", 0))
               /\ pc' = NextEvent
               /\ UNCHANGED <<pumps, vacant, reg>>
          ELSE LET idx == SlabNext IN
               /\ pumps' = [pumps EXCEPT ![idx] = downstream]
               /\ vacant' = IF vacant = <<>> THEN vacant ELSE Tail(vacant)
               /\ IF registered
                  THEN /\ reg' = [reg EXCEPT ![idx] = interest(downstream)]
                       /\ pc' = NextEvent
                       /\ Log(Lbl("accept", idx, NoToken, "ok", 0))
                  ELSE /\ reg' = reg
                       /\ pc' = "failed"
                       /\ Log(Lbl("accept", idx, NoToken, "register-err", 0))
  /\ events' = IF pc' = "failed" THEN events ELSE Tail(events)
  /\ rearmed' = {}
  /\ UNCHANGED <<links, detached, readiness, stale, new_peers, hung>>

\* The lookup of the event's pump (lines 86-94) and the first facet the event has.
classify ==
  /\ pc = "event"
  /\ token # ROOT_TOKEN
  /\ IF pumps[token] = NoPump
     THEN /\ events' = Tail(events)
          /\ readiness' = {}
          /\ pc' = NextEvent
          /\ Log(Lbl("classify", token, NoToken, "slab inconsistency", 0))
     ELSE \E rd \in Facets(Head(events).armed) :
          /\ events' = events
          /\ readiness' = rd
          /\ pc' = IF "r" \in rd THEN "drain" ELSE AfterRead(rd)
          /\ Log([Lbl("classify", token, NoToken, "ok", 0) EXCEPT !.rd = rd])
  /\ rearmed' = {}
  /\ UNCHANGED <<pumps, vacant, links, detached, reg, stale, new_peers, hung>>

\* The readable facet up to the relay (lines 96-116): drain, and on a routing
\* decision the pool, the priming of the upstream and its entry in new_peers.
\* res, n: what drain returns and the bytes it has read; pool: what DcPool::get returns.
\* m: the bytes a connection is let read in all.
read(m) ==
  /\ pc = "drain"
  /\ \E res \in {"none", "route", "err"}, n \in 0 .. 1, pool \in {"some", "none"} :
       LET p  == pumps[token]
           p1 == drain(p, res, n)
       IN
       /\ p.rx + n <= m
       /\ res = "route" => (p.kind = "down" /\ ~ p.routed)
       /\ pool = "some" => (res = "route" /\ Room)
       /\ IF res = "route" /\ pool = "some"
          THEN /\ pumps' = [pumps EXCEPT ![token] = pull(p1)]
               /\ new_peers' = [new_peers EXCEPT ![token] = primed(upstream, p1.inbuf)]
               /\ stale' = stale
               /\ Log(Lbl("drain", token, NoToken, "route-some", n))
          ELSE /\ pumps' = [pumps EXCEPT ![token] = p1]
               /\ new_peers' = new_peers
               /\ stale' = IF res = "none" THEN stale ELSE stale \cup {token}
               /\ Log(Lbl("drain", token, NoToken,
                           IF res = "route" THEN "route-none" ELSE res, n))
  /\ pc' = IF links[token] # NoToken THEN "fan_out" ELSE AfterRead(readiness)
  /\ readiness' = IF pc' = "fan_out" THEN readiness ELSE readiness \ {"r"}
  /\ rearmed' = {}
  /\ UNCHANGED <<vacant, links, detached, reg, events, hung>>

read_event == read(MaxRx)

\* The readable facet on connections that carry longer streams.
read_stream == read(MaxStream)

\* Server::fan_out (lines 215-234), called at lines 117-119.
\* registered: what Poll::reregister returns.
fan_out ==
  /\ pc = "fan_out"
  /\ LET peer_token == links[token]
         buf == pumps[token].inbuf
     IN
     IF nothing_to_relay(buf)
     THEN /\ pc' = AfterRead(readiness)
          /\ Log(Lbl("fan_out", token, peer_token, "empty", 0))
          /\ rearmed' = {}
          /\ UNCHANGED <<pumps, reg>>
     ELSE IF pumps[peer_token] = NoPump \/ peer_token = token
     THEN /\ pc' = "panic"
          /\ pumps' = [pumps EXCEPT ![token] = pull(@)]
          /\ Log(Lbl("fan_out", token, peer_token, "panic", 0))
          /\ rearmed' = {}
          /\ UNCHANGED reg
     ELSE \E registered \in BOOLEAN :
          /\ pumps' = [pumps EXCEPT ![token] = pull(@), ![peer_token] = push(@, buf)]
          /\ rearmed' = {peer_token}
          /\ reg' = IF registered
                    THEN [reg EXCEPT ![peer_token] = interest(pumps'[peer_token])]
                    ELSE reg
          /\ pc' = IF registered THEN AfterRead(readiness) ELSE "failed"
          /\ Log(Lbl("fan_out", token, peer_token,
                      IF registered THEN "ok" ELSE "reregister-err", Len(buf)))
  /\ readiness' = IF pc' \in {"failed", "panic"} THEN readiness ELSE readiness \ {"r"}
  /\ UNCHANGED <<vacant, links, detached, events, stale, new_peers, hung>>

\* Server::fan_in (lines 236-255), called at lines 124-126.
fan_in ==
  /\ pc = "fan_in"
  /\ LET peer_token == links[token]
         buf == pumps[peer_token].inbuf
     IN
     IF pumps[peer_token] = NoPump \/ peer_token = token
     THEN /\ pc' = "panic"
          /\ Log(Lbl("fan_in", token, peer_token, "panic", 0))
          /\ rearmed' = {}
          /\ UNCHANGED <<pumps, reg>>
     ELSE IF nothing_to_relay(buf)
     THEN /\ pc' = "flush"
          /\ Log(Lbl("fan_in", token, peer_token, "empty", 0))
          /\ rearmed' = {}
          /\ UNCHANGED <<pumps, reg>>
     ELSE \E registered \in BOOLEAN :
          /\ pumps' = [pumps EXCEPT ![peer_token] = pull(@), ![token] = push(@, buf)]
          /\ rearmed' = {peer_token}
          /\ reg' = IF registered
                    THEN [reg EXCEPT ![peer_token] = interest(pumps'[peer_token])]
                    ELSE reg
          /\ pc' = IF registered THEN "flush" ELSE "failed"
          /\ Log(Lbl("fan_in", token, peer_token,
                      IF registered THEN "ok" ELSE "reregister-err", Len(buf)))
  /\ UNCHANGED <<vacant, links, detached, events, readiness, stale, new_peers, hung>>

\* pump.flush() on the writable facet (lines 127-134): n bytes leave the outbound
\* buffer, or the write fails, which marks the token stale and leaves the loop.
flush_event ==
  /\ pc = "flush"
  /\ \E res \in {"ok", "err"}, n \in 0 .. Len(pumps[token].outbuf) :
       /\ res = "err" => n = 0
       /\ IF res = "ok"
          THEN /\ pumps' = [pumps EXCEPT ![token] = flush(@, n)]
               /\ pc' = "tail"
               /\ readiness' = readiness \ {"w"}
               /\ UNCHANGED <<stale, events>>
          ELSE /\ pumps' = pumps
               /\ stale' = stale \cup {token}
               /\ events' = AfterBreak(events)
               /\ readiness' = {}
               /\ pc' = AfterEvents(new_peers)
       /\ Log(Lbl("flush", token, NoToken, res, n))
  /\ rearmed' = {}
  /\ UNCHANGED <<vacant, links, detached, reg, new_peers, hung>>

\* The end of an event (lines 137-150): hangup or error marks the token stale,
\* anything else re-arms its one-shot registration with its interest.
tail_event ==
  /\ pc = "tail"
  /\ IF "hup" \in readiness \/ "err" \in readiness
     THEN /\ stale' = stale \cup {token}
          /\ events' = Tail(events)
          /\ pc' = NextEvent
          /\ Log(Lbl("tail", token, NoToken, IF "hup" \in readiness THEN "hup" ELSE "err", 0))
          /\ rearmed' = {}
          /\ hung' = IF "hup" \in readiness THEN hung \cup {<<token, links[token]>>} ELSE hung
          /\ UNCHANGED reg
     ELSE \E registered \in BOOLEAN :
          /\ stale' = stale
          /\ rearmed' = {token}
          /\ reg' = IF registered THEN [reg EXCEPT ![token] = tail_interest(pumps[token])] ELSE reg
          /\ events' = IF registered THEN Tail(events) ELSE events
          /\ pc' = IF registered THEN NextEvent ELSE "failed"
          /\ Log(Lbl("tail", token, NoToken, IF registered THEN "rereg" ELSE "reregister-err", 0))
          /\ hung' = hung
  /\ readiness' = IF pc' = "failed" THEN readiness ELSE {}
  /\ UNCHANGED <<pumps, vacant, links, detached, new_peers>>

----------------------------------------------------------------------------
(* dispatch: the end of the cycle (lines 153-182).                         *)

\* link with its first insert left out.
link_one_way(ls, tok, peer_token) == [ls EXCEPT ![tok] = peer_token]

\* links.insert(peer_token, token); links.insert(token, peer_token) (lines 158-159).
link(ls, tok, peer_token) == [ls EXCEPT ![peer_token] = tok, ![tok] = peer_token]

\* One turn of the loop over new_peers (lines 153-168); a HashMap yields its
\* entries in any order.  registered: what Poll::register returns.
activate ==
  /\ pc = "link"
  /\ \E tok \in {k \in Slots : new_peers[k] # NoPump}, registered \in BOOLEAN :
       LET idx == SlabNext
           peer_pump == new_peers[tok]
       IN
       /\ pumps' = [pumps EXCEPT ![idx] = peer_pump]
       /\ vacant' = IF vacant = <<>> THEN vacant ELSE Tail(vacant)
       /\ links' = link(links, tok, idx)
       /\ new_peers' = [new_peers EXCEPT ![tok] = NoPump]
       /\ reg' = IF registered THEN [reg EXCEPT ![idx] = interest(peer_pump)] ELSE reg
       /\ pc' = IF registered THEN AfterEvents(new_peers') ELSE "failed"
       /\ Log(Lbl("link", tok, idx, IF registered THEN "ok" ELSE "register-err", 0))
  /\ rearmed' = {}
  /\ UNCHANGED <<detached, events, readiness, stale, hung>>

\* flushed without the test of line 173.
flushed_or_not(d) == d

\* The detached tokens the check of lines 170-176 marks stale: those whose pump
\* has no write interest.
flushed(d) == {t \in d : interest(pumps[t]) # "rw"}

\* The loop over the detached set (lines 170-176).
check_detached ==
  /\ pc = "detach"
  /\ IF \E t \in detached : pumps[t] = NoPump
     THEN /\ pc' = "panic"
          /\ stale' = stale
          /\ Log(Lbl("detach", NoToken, NoToken, "panic", 0))
     ELSE /\ stale' = stale \cup flushed(detached)
          /\ pc' = IF stale' = {} THEN "poll" ELSE "drop"
          /\ Log(Lbl("detach", NoToken, NoToken, "ok", 0))
  /\ rearmed' = {}
  /\ UNCHANGED <<pumps, vacant, links, detached, reg, events, readiness, new_peers, hung>>

\* unlink without line 268.
unlink_one_way(ls, tok) == [ls EXCEPT ![tok] = NoToken]

\* The link table after the match of lines 265-272.
unlink(ls, tok) ==
  IF ls[tok] # NoToken THEN [ls EXCEPT ![tok] = NoToken, ![ls[tok]] = NoToken] ELSE ls

\* detach without line 258.
detach_keep(d, ls, tok) == IF ls[tok] # NoToken THEN d \cup {ls[tok]} ELSE d

\* The detached set after lines 258 and 269.
detach(d, ls, tok) ==
  IF ls[tok] # NoToken THEN (d \ {tok}) \cup {ls[tok]} ELSE d \ {tok}

\* Server::drop_pump (lines 257-274) for one token of stale (lines 178-180); a
\* HashSet yields its members in any order.  deregistered: what Poll::deregister
\* returns.
drop_pump ==
  /\ pc = "drop"
  /\ \E tok \in stale, deregistered \in BOOLEAN :
       IF pumps[tok] = NoPump
       THEN /\ detached' = detached \ {tok}
            /\ pc' = "panic"
            /\ Log(Lbl("drop", tok, links[tok], "panic", 0))
            /\ UNCHANGED <<pumps, vacant, links, reg, stale>>
       ELSE /\ pumps' = [pumps EXCEPT ![tok] = NoPump]
            /\ vacant' = <<tok>> \o vacant
            /\ IF deregistered
               THEN /\ reg' = [reg EXCEPT ![tok] = "unreg"]
                    /\ links' = unlink(links, tok)
                    /\ detached' = detach(detached, links, tok)
                    /\ stale' = stale \ {tok}
                    /\ pc' = IF stale' = {} THEN "poll" ELSE "drop"
                    /\ Log(Lbl("drop", tok, links[tok], "ok", 0))
               ELSE /\ detached' = detached \ {tok}
                    /\ pc' = "failed"
                    /\ Log(Lbl("drop", tok, links[tok], "deregister-err", 0))
                    /\ UNCHANGED <<links, reg, stale>>
  /\ rearmed' = {}
  /\ UNCHANGED <<events, readiness, new_peers, hung>>

----------------------------------------------------------------------------

Next ==
  \/ poll
  \/ accept
  \/ classify
  \/ read_event
  \/ fan_out
  \/ fan_in
  \/ flush_event
  \/ tail_event
  \/ activate
  \/ check_detached
  \/ drop_pump

Spec == Init /\ [][Next]_vars

\* The reactor under an environment whose events come one a wait.
NextOne ==
  \/ poll_one
  \/ accept
  \/ classify
  \/ read_event
  \/ fan_out
  \/ fan_in
  \/ flush_event
  \/ tail_event
  \/ activate
  \/ check_detached
  \/ drop_pump

\* It keeps cycling: dispatch runs on to its end, and the readiness wait returns
\* whenever some socket, the listener included, has an event.
FairSpec == Init /\ [][NextOne]_vars /\ WF_vars(NextOne)

\* The reactor with one event a wait and connections that read up to MaxStream
\* bytes, so that a buffer holds the bytes of several reads.
NextStream ==
  \/ poll_one
  \/ accept
  \/ classify
  \/ read_stream
  \/ fan_out
  \/ fan_in
  \/ flush_event
  \/ tail_event
  \/ activate
  \/ check_detached
  \/ drop_pump

StreamSpec == Init /\ [][NextStream]_vars

TypeOK ==
  /\ pc \in {"poll", "event", "drain", "fan_out", "fan_in", "flush", "tail",
              "link", "detach", "drop", "failed", "panic"}
  /\ detached \subseteq Slots
  /\ stale \subseteq Slots
  /\ \A k \in Slots : links[k] \in Slots \cup {NoToken}
  /\ \A k \in Slots : reg[k] \in {"unreg", "fired", "r", "rw"}
  /\ Len(vacant) + SlabLen <= MaxSlots

----------------------------------------------------------------------------
(* Properties.  The reactor runs while pc is neither "failed" nor "panic";  *)
(* what Server does after run has returned Err is outside them.            *)

Running == pc \notin {"failed", "panic"}

\* A drop_pump of a linked token has just returned Ok.
DroppedLinked == last.op = "drop" /\ last.res = "ok" /\ last.peer # NoToken

\* C1: the link table is symmetric in every state the reactor reaches, the end
\* of every dispatch cycle included (if links[A] = B then links[B] = A); a
\* drop_pump of a linked token never leaves one direction of its link without
\* the other, and where it returns Ok neither direction is left.  (Where
\* deregister fails it returns before line 265 and has touched neither.)
C1_LinkSymmetry ==
  /\ \A a \in Slots : links[a] # NoToken => links[links[a]] = a
  /\ (last.op = "drop" /\ last.peer # NoToken) =>
       (links[last.tok] = NoToken <=> links[last.peer] = NoToken)
  /\ DroppedLinked => (links[last.tok] = NoToken /\ links[last.peer] = NoToken)

\* One side of a link has been dropped beside a third connection; its flushed
\* partner stays in the registry, unlinked.
C1_Witness ==
  /\ DroppedLinked
  /\ links[last.tok] = NoToken
  /\ links[last.peer] = NoToken
  /\ pumps[last.peer] # NoPump
  /\ pumps[last.peer].outbuf = <<>>
  /\ SlabLen = 2

\* What C2 asks of a call drop_pump(a) of a token a linked to b.
Detaches(a, b) ==
  /\ links[a] = b
  /\ pumps[a] # NoPump /\ pumps'[a] = NoPump
  /\ links'[a] = NoToken
  /\ pumps[b] # NoPump /\ pumps'[b] = pumps[b]
  /\ b \in detached'

\* C2 as claimed: every call drop_pump(A) of a token A linked to B takes A out
\* of the registry and out of the link table, leaves B's registry entry as it
\* was, and leaves B in the detached set when it returns.
C2_DetachBeforeDrop ==
  [][(pc = "drop" /\ last'.op = "drop" /\ last'.peer # NoToken) =>
       Detaches(last'.tok, last'.peer)]_vars

\* The calls of drop_pump that return Ok do what C2 asks.
DropOkDetaches ==
  [][(pc = "drop" /\ last'.op = "drop" /\ last'.res = "ok" /\ last'.peer # NoToken) =>
       Detaches(last'.tok, last'.peer)]_vars

\* C3 as claimed: whenever a token of the detached set is removed from the
\* registry, its outbound buffer is empty at that moment.
C3_DroppedOnlyFlushed ==
  [][\A t \in Slots :
       (t \in detached /\ pumps[t] # NoPump /\ pumps'[t] = NoPump) => pumps[t].outbuf = <<>>]_vars

EventPcs == {"drain", "fan_out", "fan_in", "flush", "tail"}

\* C3 as amended: a token leaves the registry only in the drops that end a
\* cycle, as a token of stale; a token enters stale only as the token of the
\* event in hand or by the end-of-cycle check; the check marks a detached token
\* only when its outbound buffer is empty; and no buffer changes between the
\* check and the drops.  So a detached token dropped with output pending was
\* marked by an event of its own (hangup, error, a failed drain or flush).
C3_CheckMarksOnlyFlushed ==
  [][/\ \A t \in Slots : (pumps[t] # NoPump /\ pumps'[t] = NoPump) => (pc = "drop" /\ t \in stale)
     /\ \A t \in stale' \ stale : (pc \in EventPcs /\ t = token) \/ pc = "detach"
     /\ pc = "detach" =>
          \A t \in stale' \ stale : t \in detached /\ pumps[t].outbuf = <<>>
     /\ pc = "drop" =>
          \A t \in Slots : pumps'[t] = pumps[t] \/ pumps'[t] = NoPump]_vars

\* The check has just marked a flushed detached token that had no event of its
\* own in this cycle.
C3_Witness ==
  /\ pc = "drop"
  /\ last.op = "detach"
  /\ \E t \in stale \cap detached : pumps[t].outbuf = <<>> /\ reg[t] = "r" /\ stale = {t}

\* C4 as claimed, up to the end of the cycle of the hangup: when dispatch
\* returns from a cycle in which an event of a token A linked to B carried
\* hangup, A is out of the registry and out of the link table, and B is in the
\* detached set (or was itself dropped in that cycle).
C4_HangupTornDown ==
  pc \in {"poll", "failed"} =>
    \A h \in hung :
      h[2] # NoToken =>
        /\ pumps[h[1]] = NoPump
        /\ links[h[1]] = NoToken
        /\ h[2] \in detached \/ pumps[h[2]] = NoPump

\* The steps of a teardown in a reactor that runs on: (a) the handling of an
\* event that carries hangup ends with its token in stale; (b) a token leaves
\* stale only by drop_pump, which unless deregister fails takes it out of the
\* registry and the link table and puts its partner in the detached set; (c) a
\* token leaves the detached set only when it is dropped; (d) the empty outbound
\* buffer of a detached token stays empty; (e) the end-of-cycle check marks every
\* detached token whose outbound buffer is empty.
TeardownStep ==
  /\ (pc \in EventPcs /\ "hup" \in readiness /\ pc' \notin EventPcs \cup {"failed", "panic"})
       => token \in stale'
  /\ \A a \in stale \ stale' :
       /\ pc = "drop"
       /\ pumps'[a] = NoPump
       /\ links'[a] = NoToken
       /\ links[a] # NoToken => links[a] \in detached'
  /\ \A b \in detached \ detached' : pumps'[b] = NoPump
  /\ \A b \in detached :
       pumps[b].outbuf = <<>> => (pumps'[b] = NoPump \/ pumps'[b].outbuf = <<>>)
  /\ (pc = "detach" /\ pc' # "panic") =>
       \A b \in detached : pumps[b].outbuf = <<>> => b \in stale'

\* Every step of Spec is a TeardownStep, and every cycle that ends at a
\* readiness wait ends with stale empty.
TeardownSafety == [][TeardownStep]_vars /\ [](pc = "poll" => stale = {})

\* While run has not returned, a detached token whose outbound buffer is empty
\* at a readiness wait is removed from the registry, whether or not an event
\* for it is ever delivered.
TeardownLive ==
  /\ [][TeardownStep]_vars
  /\ [](pc = "poll" => stale = {})
  /\ \A b \in Slots :
       (pc = "poll" /\ b \in detached /\ pumps[b].outbuf = <<>>)
         ~> (pumps[b] = NoPump \/ ~ Running)

\* C5 as claimed: with exactly MAX_PUMPS entries in the registry, accept creates
\* no entry and registers nothing, leaves links and detached set alone, and the
\* loop goes on.
C5_RefusesAtCapacity ==
  [][(pc = "event" /\ events # <<>> /\ token = ROOT_TOKEN /\ SlabLen = MAX_PUMPS) =>
       (/\ pumps' = pumps
        /\ reg' = reg
        /\ links' = links
        /\ detached' = detached
        /\ pc' \notin {"failed", "panic"})]_vars

\* C6 as claimed: the registry never holds more than MAX_PUMPS entries.
C6_RegistryBound == SlabLen <= MAX_PUMPS

\* C7: in every state the reactor reaches, the end of every dispatch cycle
\* included, no token of the detached set is a key or a value of the link table.
C7_DetachedNotLinked ==
  \A t \in detached : links[t] = NoToken /\ (\A a \in Slots : links[a] # t)

\* A cycle ends with a detached token beside a live link.
C7_Witness ==
  /\ pc = "poll"
  /\ detached # {}
  /\ \E a \in Slots : links[a] # NoToken

\* C8: a run that takes the steps of Scenario, from the empty reactor, ends with
\* client 0 and upstream 1 in the registry, both armed for reading only, the
\* link table holding both directions and the detached set empty.
C8_EndToEnd ==
  scen = Len(Scenario) =>
    /\ pc = "poll"
    /\ pumps[0].kind = "down" /\ pumps[1].kind = "up"
    /\ reg[0] = "r" /\ reg[1] = "r"
    /\ links[0] = 1 /\ links[1] = 0
    /\ detached = {}

\* Scenario has been followed to its end.
C8_Witness == scen = Len(Scenario)

\* C9: fan_out called with nothing buffered in the current connection, and
\* fan_in called with nothing buffered in the peer, change no buffer and pass no
\* token to reregister.
C9_EmptyRelayNoOp ==
  [][/\ (pc = "fan_out" /\ pumps[token].inbuf = <<>>) =>
          (pumps' = pumps /\ reg' = reg /\ rearmed' = {})
     /\ (pc = "fan_in" /\ pumps[links[token]].inbuf = <<>>) =>
          (pumps' = pumps /\ reg' = reg /\ rearmed' = {})]_vars

\* fan_out has just returned early on an empty buffer.
C9_Witness ==
  /\ last.op = "fan_out"
  /\ last.res = "empty"
  /\ rearmed = {}

\* C10 as claimed: at every readiness wait, every connection still in the
\* registry is armed; none is left with its one-shot registration fired.
C10_AllRearmed ==
  pc = "poll" => \A t \in Slots : pumps[t] # NoPump => reg[t] \in {"r", "rw"}

\* C11 as claimed: the fan_out that follows a failed drain of the same event
\* pulls nothing from the failing connection, pushes nothing to its peer and
\* passes no token to reregister.
C11_DrainFailureStopsRelay ==
  [][(pc = "fan_out" /\ last.op = "drain" /\ last.res = "err") =>
       (pumps' = pumps /\ reg' = reg /\ rearmed' = {})]_vars

\* pump.flush() of the event in hand has just returned Err.
FlushFails == pc = "flush" /\ last'.op = "flush" /\ last'.res = "err"

\* C12 as claimed: a flush failure marks the token in hand stale and ends the
\* handling of that event only; the events that follow it in the batch are
\* still handled in that cycle.
C12_FlushFailureIsolated ==
  [][FlushFails =>
       /\ token \in stale'
       /\ events' = Tail(events)
       /\ Tail(events) # <<>> => pc' = "event"]_vars

ReconcilePcs == {"link", "detach", "drop"}

\* C13: a flush failure marks the token in hand stale and leaves the loop over
\* the events: no event is left to handle, nothing else has changed, and
\* dispatch goes on with the end-of-cycle steps (link activation if any, the
\* detached check, the drops), from which it does not come back to an event
\* and reaches the next readiness wait only with every stale token dropped.
C13_FlushFailFast ==
  /\ [][FlushFails =>
          /\ stale' = stale \cup {token}
          /\ events' = <<>>
          /\ pc' = AfterEvents(new_peers)
          /\ pumps' = pumps /\ reg' = reg /\ rearmed' = {}
          /\ links' = links /\ detached' = detached /\ new_peers' = new_peers]_vars
  /\ [][(pc \in ReconcilePcs) =>
          (events = <<>> /\ pc' \in ReconcilePcs \cup {"poll", "failed", "panic"})]_vars
  /\ [](pc = "poll" => stale = {})

\* A flush has just failed with another event of the batch still to handle: its
\* token stays fired, neither re-armed nor stale.
C13_Witness ==
  /\ last.op = "flush"
  /\ last.res = "err"
  /\ pc \in ReconcilePcs
  /\ events = <<>>
  /\ \E t \in Slots \ stale : t # last.tok /\ pumps[t] # NoPump /\ reg[t] = "fired"

\* C14 as claimed: when Poll::deregister fails in drop_pump, the drop still
\* completes (the token leaves the registry, its link is removed in both
\* directions and its partner joins the detached set), the other stale tokens
\* are still dropped and the loop keeps running.
C14_DeregisterFailureTolerated ==
  [][(pc = "drop" /\ last'.op = "drop" /\ last'.res = "deregister-err") =>
       LET a == last'.tok
           b == last'.peer
       IN /\ pumps'[a] = NoPump
          /\ links'[a] = NoToken
          /\ b # NoToken => (links'[b] = NoToken /\ b \in detached')
          /\ stale' = stale \ {a}
          /\ pc' = IF stale' = {} THEN "poll" ELSE "drop"]_vars

\* C15: while the reactor runs, every token it dereferences names an occupied
\* slot: the keys and values of the link table (the peers of fan_out and
\* fan_in), the members of the detached set (the check of lines 170-176) and, in
\* the drops that end a cycle, the stale tokens still to drop (each dropped
\* once); no unwrap, Slab::remove or borrow ever panics.
C15_TokenValidity ==
  /\ pc # "panic"
  /\ Running =>
       /\ \A a \in Slots : links[a] # NoToken => (a \in live /\ links[a] \in live)
       /\ detached \subseteq live
       /\ pc = "drop" => stale \subseteq live
       /\ pc \in {"fan_out", "fan_in"} => (links[token] \in live /\ links[token] # token)

\* Both partners of a link are stale in one cycle: the first has just been
\* dropped, its partner is detached and is the next to drop.
C15_Witness ==
  /\ pc = "drop"
  /\ DroppedLinked
  /\ last.peer \in detached
  /\ stale = {last.peer}
  /\ pumps[last.tok] = NoPump

LoopPcs == EventPcs \cup {"event"}

\* C16: while dispatch is in its loop over the events, the link table does not
\* change, a pump waiting in new_peers is not touched and its client has no
\* link, and the registry gains only accepted client pumps; each turn of the
\* loop of lines 153-168 runs with no event left, takes one waiting pump into a
\* vacant slot, links it both ways with its client and registers it with its
\* interest; no event is handled after it in that cycle, and none is left
\* waiting when the detached check starts.
C16_DeferredActivation ==
  /\ [][(pc \in LoopPcs) =>
          /\ links' = links
          /\ \A k \in Slots : new_peers[k] # NoPump => new_peers'[k] = new_peers[k]
          /\ \A k \in Slots : (pumps[k] = NoPump /\ pumps'[k] # NoPump) => pumps'[k] = downstream]_vars
  /\ [](pc \in LoopPcs => \A k \in Slots : new_peers[k] # NoPump => links[k] = NoToken)
  /\ [][(pc = "link") =>
          /\ events = <<>>
          /\ \E tok \in Slots :
               /\ new_peers[tok] # NoPump /\ new_peers'[tok] = NoPump
               /\ LET idx == links'[tok]
                  IN /\ idx \in Slots /\ idx # tok
                     /\ pumps[idx] = NoPump /\ pumps'[idx] = new_peers[tok]
                     /\ links'[idx] = tok
                     /\ pc' # "failed" => reg'[idx] = interest(new_peers[tok])
          /\ pc' \notin LoopPcs]_vars
  /\ [](pc \in {"detach", "drop", "poll"} => \A k \in Slots : new_peers[k] = NoPump)

\* An upstream waits in new_peers while another event of the batch is still to
\* be handled.
C16_Witness ==
  /\ pc = "event"
  /\ \E k \in Slots : new_peers[k] # NoPump /\ new_peers[k].outbuf # <<>> /\ token # k

\* C17: no token is linked to itself; the key handed to an upstream pump at
\* link activation is never the key of a client waiting for its link, which
\* still holds its slot; and in fan_out and fan_in the peer token is another
\* token than the one whose pump dispatch holds borrowed.
C17_NoSelfAlias ==
  /\ \A a \in Slots : links[a] # a
  /\ pc = "link" =>
       \A tok \in Slots : new_peers[tok] # NoPump => (pumps[tok] # NoPump /\ SlabNext # tok)
  /\ pc \in {"fan_out", "fan_in"} => (links[token] # NoToken /\ links[token] # token)

\* An upstream has just been linked into a reused slot, below its client's.
C17_Witness ==
  /\ last.op = "link"
  /\ last.res = "ok"
  /\ last.peer < last.tok
  /\ links[last.tok] = last.peer
  /\ links[last.peer] = last.tok

\* C18 as claimed, for hangup: a token whose event of this cycle carried hangup
\* (and so is marked stale) is not passed to Poll::reregister by any later step
\* of that cycle.
C18_HangupWins ==
  [][\A h \in hung : h[1] \notin rearmed']_vars

\* The clients in the registry whose routing decision found no upstream: routed,
\* with neither a link nor an upstream waiting for activation, and not the
\* left-over side of a dropped link.
Unserved ==
  {k \in live \ detached :
     pumps[k].kind = "down" /\ pumps[k].routed /\ links[k] = NoToken /\ new_peers[k] = NoPump}

\* C19 as claimed: when drain yields a routing decision and the pool returns
\* None, the token is marked stale and no upstream or link is made for it; when
\* dispatch returns, the client is out of the registry; and run has not stopped
\* on an Err on the way there.
C19_PoolUnavailable ==
  /\ [][(pc = "drain" /\ last'.op = "drain" /\ last'.res = "route-none") =>
          (token \in stale' /\ new_peers' = new_peers /\ links' = links)]_vars
  /\ [](pc \in {"poll", "failed"} => Unserved = {})
  /\ [][\A k \in Unserved : pumps'[k] = NoPump => pc' # "failed"]_vars

\* With no call to the readiness source failing, the unserved client is gone at
\* the next readiness wait.
UnservedDropped == pc = "poll" => Unserved = {}

\* The bytes lo + 1 .. hi of the stream read on a connection of the given kind.
Seg(kind, lo, hi) == [j \in 1 .. (hi - lo) |-> <<kind, lo + j>>]

\* How many bytes of its stream have left a pump's inbound buffer.
Relayed(p) == p.rx - Len(p.inbuf)

\* out holds, in the order they were read, the latest bytes relayed from src.
InOrderFrom(src, out) ==
  /\ Len(out) <= Relayed(src)
  /\ out = Seg(src.kind, Relayed(src) - Len(out), Relayed(src))

\* A step that takes bytes out of the inbound buffer of the pump at k, and the
\* bytes it takes.
Pulls(k) == pumps[k] # NoPump /\ pumps'[k] # NoPump /\ Relayed(pumps'[k]) > Relayed(pumps[k])
Moved(k) == Seg(pumps[k].kind, Relayed(pumps[k]), Relayed(pumps'[k]))

\* A step that leaves the outbound buffer of every registry entry but `except` alone.
OtherOutbufsKept(except) ==
  \A j \in Slots \ {except} :
    (pumps[j] # NoPump /\ pumps'[j] # NoPump) => pumps'[j].outbuf = pumps[j].outbuf

\* C20: the bytes a step pulls from a connection's inbound buffer are appended,
\* once and in the order they were read, to the outbound buffer of its linked
\* peer, or of the upstream just obtained for it, and to no other buffer; an
\* outbound buffer grows by nothing else; and so every inbound buffer is the end
\* of its connection's stream, and every outbound buffer holds a run of its
\* partner's stream that ends with the last byte relayed.
C20_RelayConservation ==
  /\ [][\A k \in Slots : Pulls(k) =>
          IF links[k] # NoToken
          THEN /\ pumps'[links[k]].outbuf = pumps[links[k]].outbuf \o Moved(k)
               /\ OtherOutbufsKept(links[k])
               /\ new_peers' = new_peers
          ELSE /\ new_peers[k] = NoPump /\ new_peers'[k] # NoPump
               /\ new_peers'[k].outbuf = Moved(k)
               /\ \A j \in Slots \ {k} : new_peers'[j] = new_peers[j]
               /\ OtherOutbufsKept(NoToken)]_vars
  /\ [][\A j \in Slots :
          (pumps[j] # NoPump /\ pumps'[j] # NoPump
             /\ Len(pumps'[j].outbuf) > Len(pumps[j].outbuf)) =>
          (links[j] # NoToken /\ Pulls(links[j]))]_vars
  /\ [](\A a \in live :
          /\ pumps[a].inbuf = Seg(pumps[a].kind, Relayed(pumps[a]), pumps[a].rx)
          /\ (links[a] # NoToken /\ links[a] \in live) =>
               InOrderFrom(pumps[a], pumps[links[a]].outbuf)
          /\ new_peers[a] # NoPump => InOrderFrom(pumps[a], new_peers[a].outbuf))

\* An upstream holds two bytes of its client, the one it was primed with and the
\* one fan_out brought later, and the client one byte of the upstream.
C20_Witness ==
  /\ last.op = "fan_out" /\ last.res = "ok" /\ last.peer \in live /\ last.tok \in live
  /\ pumps[last.tok].kind = "down"
  /\ pumps[last.peer].outbuf = <<<<"down", 1>>, <<"down", 2>>>>
  /\ pumps[last.tok].outbuf = <<<<"up", 1>>>>

=============================================================================
